---- MODULE Spec2Model ----
(***************************************************************************)
(* pipemaker (src/index.js): a registry that maps file extensions to       *)
(* chains of compilers, the pipelines built from those chains, and the     *)
(* wildcard compiler that dispatches indentation blocks of one document.   *)
(*                                                                         *)
(* A JavaScript string is a sequence of symbols.  A symbol is one          *)
(* character (" ", ">", "@", "'" ...) or, where the characters of a word   *)
(* do not matter, one whole name ("javascript").                           *)
(***************************************************************************)
EXTENDS Integers, Sequences, FiniteSets, TLC

VARIABLES
  core,       \* the module-level object `core`: extension -> chain string
  instances,  \* the Pipemaker instances constructed so far
  pipelines,  \* this.pipelines of each instance: chain string -> pipeline
  nextId,     \* identity of the next function object createPipeline returns
  last,       \* the last registry call and what it returned or threw
  nops,       \* number of registry calls made
  made,       \* the pipeline functions createPipeline was asked for
  runs,       \* the invocations of those pipeline functions
  padCall,    \* a call of the helper pad: its arguments and its result
  wc          \* a call of compileWildcard: the line array, the blocks being
              \* compiled, the pipeline run awaited, what was delivered

regVars == <<core, instances, pipelines, nextId, last, nops>>

pipeVars == <<made, runs>>

vars == <<core, instances, pipelines, nextId, last, nops, made, runs, padCall, wc>>

----------------------------------------------------------------------------
(* Values *)

\* the value `undefined`; as a property key it reads "undefined"
UNDEFINED == <<"undefined">>

\* the wildcard chain "*"
WILDCARD == <<"*">>

\* the force-to-text token "@"
AT == <<"@">>

\* JavaScript truthiness of a string-or-undefined value
Truthy(v) == v # UNDEFINED /\ v # <<>>

Instances == {"p1", "p2"}

\* extensions, in the insertion order of `core` followed by the others
ExtOrder == <<"js", "html", "css", "xyz", "abc">>

Exts == {ExtOrder[k] : k \in 1..Len(ExtOrder)}

\* the object literal `core` as the module defines it
CoreLiteral ==
  [e \in Exts |->
     CASE e = "js"   -> <<"javascript">>
       [] e = "html" -> <<"html">>
       [] e = "css"  -> <<"css">>
       [] OTHER      -> UNDEFINED]

\* compilers.defaultCompilerForExtension: the conventional chain of an
\* extension; the built-in kinds as in `core`, any other kind compiles with
\* the compiler named like the extension
defaultCompilerForExtension(ext) ==
  IF Truthy(CoreLiteral[ext]) THEN CoreLiteral[ext] ELSE <<ext>>

CH_A      == <<"a">>
CH_AB     == <<"a", ">", "b">>
CH_ABC    == <<"a", ">", "b", ">", "c">>
CH_A_AT   == <<"a", ">", "@">>
CH_AT_B   == <<"@", ">", "b">>
CH_A_AT_B == <<"a", ">", "@", ">", "b">>
CH_AB_AT_C == <<"a", ">", "b", ">", "@", ">", "c">>
CH_A_AT_BC == <<"a", ">", "@", ">", "b", ">", "c">>
CH_AT_B_AT_C == <<"@", ">", "b", ">", "@", ">", "c">>

----------------------------------------------------------------------------
(* createPipeline: parsing of the chain string *)

RECURSIVE SplitFrom(_, _, _)
SplitFrom(s, d, acc) ==
  IF s = <<>> THEN <<acc>>
  ELSE IF Head(s) = d THEN <<acc>> \o SplitFrom(Tail(s), d, <<>>)
  ELSE SplitFrom(Tail(s), d, Append(acc, Head(s)))

\* String.prototype.split on a one-character separator
split(s, d) == SplitFrom(s, d, <<>>)

\* compilers(name, {dir, fetch}): the stage function the collaborator
\* resolves for a name; a stage is identified by its name
compilers(name) == name

RECURSIVE reduceChain(_, _)
\* the reducer of createPipeline over the tokens, agg = {pre, post, which}
reduceChain(tokens, agg) ==
  IF tokens = <<>> THEN agg
  ELSE LET pipeline == Head(tokens)
           agg1 == IF pipeline = AT
                     THEN [agg EXCEPT !.which = "post"]
                   ELSE IF agg.which = "pre"
                     THEN [agg EXCEPT !.pre = Append(@, compilers(pipeline))]
                   ELSE [agg EXCEPT !.post = Append(@, compilers(pipeline))]
       IN reduceChain(Tail(tokens), agg1)

\* the throw with the comparison off by one
createPipelineAnyPost(chain) ==
  LET p == reduceChain(split(chain, ">"), [pre |-> <<>>, post |-> <<>>, which |-> "pre"])
  IN [threw |-> Len(p.post) >= 1, pre |-> p.pre, post |-> p.post, which |-> p.which]

\* createPipeline(chain): the stage lists the returned function closes over,
\* or the synchronous throw
createPipeline(chain) ==
  LET p == reduceChain(split(chain, ">"), [pre |-> <<>>, post |-> <<>>, which |-> "pre"])
  IN [threw |-> Len(p.post) > 1, pre |-> p.pre, post |-> p.post, which |-> p.which]

----------------------------------------------------------------------------
(* The registry.  A world w is the heap the registry calls work on:        *)
(* w.core, w.pipelines, w.nextId, and the outcome of the call: w.threw,    *)
(* w.ret (the identity of the returned pipeline, 0 for undefined).         *)

\* this.mappings of an instance: the constructor stores the object that
\* assign(core, ...) returns, which is `core` itself
mappings(w, i) == w.core

\* this.mappings[ext] = v, a write to that same object
setMapping(w, i, ext, v) == [w EXCEPT !.core[ext] = v]

\* this.pipelines[key] of instance i, 0 when the key is absent
pipelineAt(w, i, key) ==
  IF key \in DOMAIN w.pipelines[i] THEN w.pipelines[i][key] ELSE 0

\* delete obj[key]
deleteKey(obj, key) == [k \in (DOMAIN obj) \ {key} |-> obj[k]]

\* obj[key] = v
putKey(obj, key, v) == [k \in (DOMAIN obj) \cup {key} |-> IF k = key THEN v ELSE obj[k]]

\* getPipeline that builds on every call
getPipelineAlwaysBuild(w, i, chain) ==
  LET fn == createPipeline(chain)
  IN IF fn.threw
       THEN [w EXCEPT !.threw = TRUE, !.ret = 0]
       ELSE [w EXCEPT !.pipelines[i] = putKey(@, chain, w.nextId),
                      !.nextId = w.nextId + 1,
                      !.ret = w.nextId]

\* getPipeline(chain)
getPipeline(w, i, chain) ==
  IF pipelineAt(w, i, chain) = 0
    THEN LET fn == createPipeline(chain)
         IN IF fn.threw
              THEN [w EXCEPT !.threw = TRUE, !.ret = 0]
              ELSE [w EXCEPT !.pipelines[i] = putKey(@, chain, w.nextId),
                             !.nextId = w.nextId + 1,
                             !.ret = w.nextId]
    ELSE [w EXCEPT !.ret = pipelineAt(w, i, chain)]

\* addPipeline without the wildcard test of lines 400-403
addPipelineNoWildcardTest(w, i, ext, chain) ==
  LET c  == IF Truthy(chain) THEN chain ELSE defaultCompilerForExtension(ext)
      w1 == setMapping(w, i, ext, c)
      w2 == getPipeline(w1, i, c)
  IN IF w2.threw THEN w2
     ELSE [w2 EXCEPT !.pipelines[i] = putKey(@, c, w2.ret)]

\* addPipeline(ext, chain); chain = UNDEFINED when the argument is omitted
addPipeline(w, i, ext, chain) ==
  IF chain = WILDCARD
    THEN [setMapping(w, i, ext, WILDCARD) EXCEPT !.ret = 0]
    ELSE LET c  == IF Truthy(chain) THEN chain ELSE defaultCompilerForExtension(ext)
             w1 == setMapping(w, i, ext, c)
             w2 == getPipeline(w1, i, c)
         IN IF w2.threw THEN w2
            ELSE [w2 EXCEPT !.pipelines[i] = putKey(@, c, w2.ret)]

\* removePipeline(ext)
removePipeline(w, i, ext) ==
  LET w1 == [w EXCEPT !.pipelines[i] = deleteKey(@, mappings(w, i)[ext])]
      w2 == setMapping(w1, i, ext, UNDEFINED)
  IN IF Truthy(w2.core[ext])
       THEN addPipeline(w2, i, ext, w2.core[ext])
       ELSE [w2 EXCEPT !.ret = 0]

\* hasPipeline(ext)
hasPipeline(w, i, ext) == Truthy(mappings(w, i)[ext])

\* assign(target, source): copies the source's own keys into the target
assign(target, source) ==
  [e \in Exts |-> IF e \in DOMAIN source THEN source[e] ELSE target[e]]

RECURSIVE addAll(_, _, _)
\* the constructor's loop `for (var ext in this.mappings) this.addPipeline(...)`
addAll(w, i, exts) ==
  IF exts = <<>> \/ w.threw THEN w
  ELSE LET ext == Head(exts)
       IN IF mappings(w, i)[ext] = UNDEFINED
            THEN addAll(w, i, Tail(exts))
            ELSE addAll(addPipeline(w, i, ext, mappings(w, i)[ext]), i, Tail(exts))

\* new Pipemaker({mappings: m})
Pipemaker(w, i, m) ==
  LET w1 == [w EXCEPT !.core = assign(w.core, m), !.pipelines[i] = <<>>]
  IN addAll(w1, i, ExtOrder)

\* the dispatch of compile(ext, str, options, next): the pipeline the call
\* invokes, "wildcard" for compileWildcard, a TypeError when
\* this.pipelines[this.mappings[ext]] is not a function
compile(w, i, ext) ==
  IF mappings(w, i)[ext] = WILDCARD
    THEN [threw |-> FALSE, ret |-> 0, wildcard |-> TRUE]
    ELSE LET p == pipelineAt(w, i, mappings(w, i)[ext])
         IN [threw |-> p = 0, ret |-> p, wildcard |-> FALSE]

----------------------------------------------------------------------------
(* Running a pipeline.  A value is a string (kind "str"), a function a     *)
(* stage produced (kind "fn"), or the wrapper `function() { return         *)
(* results }` (kind "thunk"); s is the text of a string, the text a thunk  *)
(* returns, the source of a function.  An error is a string, <<>> is null. *)

NULL == <<>>

\* the options object {}
EMPTY == <<>>

Str(s) == [kind |-> "str", s |-> s]

NoValue == [kind |-> "undefined", s |-> UNDEFINED]

\* what a stage passes to its continuation: an error, a string computed
\* from its input, a function, or its input unchanged
StageResult(stage, input, how) ==
  CASE how = "err" -> [err |-> <<"Error:">> \o stage, val |-> NoValue]
    [] how = "str" -> [err |-> NULL, val |-> Str(stage \o <<"(">> \o input.s \o <<")">>)]
    [] how = "fn"  -> [err |-> NULL, val |-> [kind |-> "fn", s |-> stage \o <<"(">> \o input.s \o <<")">>]]
    [] how = "same" -> [err |-> NULL, val |-> input]

\* f.call(null, options) for a function value f
Call(f, options) ==
  IF f.kind = "thunk" THEN Str(f.s)
  ELSE Str(<<"call">> \o f.s \o <<"with">> \o options)

\* a pipeline invocation that has not been made; next is what the caller
\* passes as the last parameter: "function", or "undefined" when the
\* parameter is not supplied; tasks is the array runTask shifts, and own
\* says whether that array is the run's own or the pipeline's array `pre`
Idle == [phase |-> "idle", pipe |-> "", str |-> NoValue, options |-> <<>>,
         tasks |-> <<>>, calls |-> <<>>, rets |-> <<>>, delivered |-> <<>>,
         next |-> "function", own |-> TRUE]

\* the variables that hold the caller's pipeline functions and invocations
Slots == {"f1", "f2"}

Runs == {"r1", "r2"}

\* a variable that holds no pipeline function yet
NotMade == [status |-> "none", chain |-> <<>>, pre |-> <<>>, post |-> <<>>,
            which |-> "pre"]

\* next(err, val) of the pipeline's caller; calling a next that is
\* undefined is a TypeError thrown inside the stage's continuation
deliver(run, err, val) ==
  IF run.next = "undefined" THEN [run EXCEPT !.phase = "threw"]
  ELSE [run EXCEPT !.phase = "done",
                   !.delivered = Append(@, [err |-> err, val |-> val])]

\* task.call(null, str, options, continuation): the run now waits for the
\* stage to call its continuation
invoke(run, phase, stage, str, options) ==
  [run EXCEPT !.phase = phase,
              !.calls = Append(@, [stage |-> stage, input |-> str, options |-> options])]

\* the callback the pipeline function passes to runTask (lines 341-357),
\* which also wraps when the chain ended in "@" without a post stage
preDoneByWhich(run, pipe, err, text) ==
  IF err # NULL THEN deliver(run, err, NoValue)
  ELSE IF Len(pipe.post) > 0
    THEN invoke(run, "post", pipe.post[1], text, <<>>)
  ELSE IF pipe.which = "post"
    THEN deliver(run, NULL, [kind |-> "thunk", s |-> text.s])
  ELSE deliver(run, NULL, text)

\* the callback the pipeline function passes to runTask (lines 341-357)
preDone(run, pipe, err, text) ==
  IF err # NULL THEN deliver(run, err, NoValue)
  ELSE IF Len(pipe.post) > 0
    THEN invoke(run, "post", pipe.post[1], text, <<>>)
  ELSE deliver(run, NULL, text)

\* runTask(tasks, str, options, next) with next = preDone
runTask(run, pipe, tasks, str) ==
  IF tasks = <<>> THEN preDone(run, pipe, NULL, str)
  ELSE invoke([run EXCEPT !.tasks = Tail(tasks)], "pre", Head(tasks), str, run.options)

\* the continuation of a pre stage that goes on after an error
taskDoneNoReturn(run, pipe, err, res) ==
  LET res1 == IF res.kind \in {"fn", "thunk"} THEN Call(res, run.options) ELSE res
      run1 == IF err # NULL THEN preDone(run, pipe, err, NoValue) ELSE run
  IN runTask(run1, pipe, run.tasks, res1)

\* the continuation of a pre stage that hands the next stage the old input
taskDoneKeepsInput(run, pipe, err, res) ==
  IF err # NULL THEN preDone(run, pipe, err, NoValue)
  ELSE runTask(run, pipe, run.tasks, run.calls[Len(run.calls)].input)

\* the continuation runTask passes to a pre stage (lines 286-291)
taskDone(run, pipe, err, res) ==
  IF err # NULL THEN preDone(run, pipe, err, NoValue)
  ELSE LET res1 == IF res.kind \in {"fn", "thunk"} THEN Call(res, run.options) ELSE res
       IN runTask(run, pipe, run.tasks, res1)

\* the continuation of the post stage without the wrapping of strings
postDoneNoWrap(run, err, results) ==
  IF err # NULL THEN deliver(run, err, NoValue)
  ELSE deliver(run, NULL, results)

\* the continuation passed to the post stage (lines 345-353)
postDone(run, err, results) ==
  IF err # NULL THEN deliver(run, err, NoValue)
  ELSE IF results.kind = "str"
    THEN deliver(run, NULL, [kind |-> "thunk", s |-> results.s])
  ELSE deliver(run, NULL, results)

\* the pipeline's array passed on as it is, without a copy
sliceNone(arr) == [own |-> FALSE, tasks |-> arr]

\* pipelines.pre.slice(0): a new array with the same elements
slice(arr) == [own |-> TRUE, tasks |-> arr]

\* the array a run's runTask works on: its own, or the pipeline's `pre`
loadTasks(run, pipe) == IF run.own THEN run ELSE [run EXCEPT !.tasks = pipe.pre]

\* what tasks.shift() did to the pipeline's `pre` when the run works on it
storeTasks(pipe, run) == IF run.own THEN pipe ELSE [pipe EXCEPT !.pre = run.tasks]

\* the function createPipeline returns, called with (str, options, next)
pipelineFn(run, f, pipe, str, options) ==
  LET t == slice(pipe.pre)
  IN runTask([run EXCEPT !.pipe = f, !.str = str, !.options = options,
                         !.own = t.own],
             pipe, t.tasks, str)

----------------------------------------------------------------------------
(* Text helpers of the wildcard compiler *)

\* the characters the regular expression class \s matches
IsSpace(c) == c \in {" ", "\t", "\n", "\r"}

\* the characters of the class [\n\r]
IsLineBreak(c) == c \in {"\n", "\r"}

RECURSIVE LeadingSpace(_)
\* str.match(/^(\s*)/)[0].length
LeadingSpace(str) ==
  IF str = <<>> \/ ~IsSpace(Head(str)) THEN 0 ELSE 1 + LeadingSpace(Tail(str))

RECURSIVE SplitLinesFrom(_, _)
SplitLinesFrom(str, acc) ==
  IF str = <<>> THEN <<acc>>
  ELSE IF IsLineBreak(Head(str)) THEN <<acc>> \o SplitLinesFrom(Tail(str), <<>>)
  ELSE SplitLinesFrom(Tail(str), Append(acc, Head(str)))

\* str.split(/[\n\r]/)
splitLines(str) == SplitLinesFrom(str, <<>>)

RECURSIVE join(_, _)
\* lines.join(sep); an undefined element joins as the empty string
join(lines, sep) ==
  IF lines = <<>> THEN <<>>
  ELSE LET h == IF Head(lines) = UNDEFINED THEN <<>> ELSE Head(lines)
       IN IF Len(lines) = 1 THEN h ELSE h \o sep \o join(Tail(lines), sep)

\* new Array(1 + n).join(" ")
Spaces(n) == [k \in 1..n |-> " "]

\* pad(str, minIndent)
pad(str, minIndent) ==
  LET lead == LeadingSpace(str)
  IN IF lead < minIndent
       THEN LET lines == splitLines(str)
            IN join([k \in 1..Len(lines) |-> Spaces(minIndent - lead) \o lines[k]],
                    <<"\n">>)
       ELSE str

\* no call of pad made yet, with the arguments it will get
NoPad == [done |-> FALSE, str |-> <<>>, minIndent |-> 0, out |-> <<>>]

----------------------------------------------------------------------------
(* The wildcard compiler.  Line numbers count from 1 here, from 0 in the   *)
(* code.  A machine m holds what one compileWildcard call works on:        *)
(*   m.lines      the array `lines`, shared by all blocks                  *)
(*   m.stack      the compileBlock activations, innermost last; each holds *)
(*                start, lineNo, block (ext, base, lines), out, and which  *)
(*                continuation its pending complete() was given (mode)     *)
(*   m.reg        the registry heap                                        *)
(*   m.run, m.pipe  the pipeline invocation a block waits for              *)
(*   m.log        the calls of self.compile made by complete(), each with  *)
(*                the member lines joined, the child callbacks the block   *)
(*                had seen (kids), the marker line of the block, the       *)
(*                equal-indent marker lines its scan had met (sibs), and,  *)
(*                once the pipeline answered, the error and the padded     *)
(*                text                                                     *)
(*   m.delivered  the calls of the caller's next                           *)
(*   m.heap       the options objects, each the set of its keys: heap[1]   *)
(*                is the object the caller passed, the others are the      *)
(*                copies complete() made                                   *)
(*   m.steps      the number of steps taken: the call and the answers of   *)
(*                the stages                                               *)
(*   m.ids        for each element of m.lines, the number of the document  *)
(*                line it is, 0 for a child's compiled text                *)
(*   m.used       the document lines the blocks took, in order: as marker  *)
(*                (line 175), as member (line 222) or as the equal-indent  *)
(*                marker that closed a block (line 214), with the depth    *)
(*                of the block                                             *)

IsQuote(c) == c \in {"'", "\""}

RECURSIVE SpaceRun(_, _)
\* the number of whitespace characters from position k on
SpaceRun(line, k) ==
  IF k > Len(line) \/ ~IsSpace(line[k]) THEN 0 ELSE 1 + SpaceRun(line, k + 1)

RECURSIVE ExtRun(_, _)
\* the number of characters of the class [^\s'"] from position k on
ExtRun(line, k) ==
  IF k > Len(line) \/ IsSpace(line[k]) \/ IsQuote(line[k]) THEN 0
  ELSE 1 + ExtRun(line, k + 1)

ArrowsAt(line, k) == k + 1 <= Len(line) /\ line[k] = ">" /\ line[k + 1] = ">"

\* COMPILER_RE = /(\s*)['"]?>>\s?([^\s'"]+)/ tried at position i: \s* takes
\* the whole whitespace run (a shorter one cannot be followed by a quote or
\* by ">>"), the quote and the one space after ">>" are taken when present
matchAt(line, i) ==
  LET n  == SpaceRun(line, i)
      p0 == i + n
      p  == IF p0 <= Len(line) /\ IsQuote(line[p0]) THEN p0 + 1 ELSE p0
      q0 == p + 2
      q  == IF q0 <= Len(line) /\ IsSpace(line[q0]) THEN q0 + 1 ELSE q0
      m  == ExtRun(line, q)
  IN [found  |-> ArrowsAt(line, p) /\ m > 0,
      indent |-> SubSeq(line, i, i + n - 1),
      ext    |-> SubSeq(line, q, q + m - 1)]

\* the regular expression anchored at the start of the line
testAnchored(line) == line # UNDEFINED /\ matchAt(line, 1).found

\* COMPILER_RE.test(line): the expression is not anchored, it matches at
\* the leftmost position of the line where it can
test(line) == \E i \in 1..Len(line) : matchAt(line, i).found

\* str.match(COMPILER_RE), for a line the expression matches
match(line) ==
  LET i == CHOOSE i \in 1..Len(line) :
             /\ matchAt(line, i).found
             /\ \A j \in 1..(i - 1) : ~matchAt(line, j).found
  IN matchAt(line, i)

\* parseCompiler(str); match is null when the line is no marker, and
\* reading match[1] throws
parseCompiler(str) ==
  IF test(str)
    THEN [threw |-> FALSE, indent |-> match(str).indent, ext |-> match(str).ext,
          lines |-> <<>>]
    ELSE [threw |-> TRUE, indent |-> <<>>, ext |-> <<>>, lines |-> <<>>]

\* the extension a marker names, as the key of the registry
extKey(ext) == IF Len(ext) = 1 /\ ext[1] \in Exts THEN ext[1] ELSE "abc"

\* lines.splice(at, n)
splice(lines, at, n) ==
  LET k == IF n < 0 THEN 0 ELSE IF at + n - 1 > Len(lines) THEN Len(lines) - at + 1 ELSE n
  IN IF at > Len(lines) THEN lines
     ELSE SubSeq(lines, 1, at - 1) \o SubSeq(lines, at + k, Len(lines))

\* the error field of a compile call the pipeline has not answered yet
PENDING == <<"pending">>

\* no call of compileWildcard
NoWildcard ==
  [status |-> "none", str |-> <<>>, options |-> <<>>, lines |-> <<>>,
   stack |-> <<>>, run |-> Idle, pipe |-> NotMade, log |-> <<>>,
   delivered |-> <<>>, ids |-> <<>>, used |-> <<>>, heap |-> <<>>,
   steps |-> 0]

RECURSIVE nextLine(_)
RECURSIVE compileBlock(_, _)
RECURSIVE complete(_, _)
RECURSIVE compiled(_)
RECURSIVE childDone(_, _, _, _)

\* the caller's next(err, compiled): the call is over
topNext(m, err, text) ==
  [m EXCEPT !.status = "done",
            !.stack = <<>>,
            !.delivered = Append(@, [err |-> err,
                                     val |-> IF err # NULL THEN NoValue ELSE Str(text)])]

\* next(err, compiled, count) of the innermost block: the caller's next for
\* the block of line 0, the parent's callback for a child; count = 0 stands
\* for an absent count
blockNext(m, err, text, count) ==
  IF Len(m.stack) = 1 THEN topNext(m, err, text)
  ELSE childDone([m EXCEPT !.stack = SubSeq(@, 1, Len(@) - 1)], err, text, count)

\* the callback a parent gives to compileBlock for a child (lines 206-211);
\* err is not looked at, and with an error compiled and count are undefined
childDone(m, err, text, count) ==
  LET d == Len(m.stack)
      lineNo == m.stack[d].lineNo
  IN nextLine([m EXCEPT !.lines = splice([@ EXCEPT ![lineNo] = text], lineNo + 1, count - 1),
                        !.ids = splice([@ EXCEPT ![lineNo] = 0], lineNo + 1, count - 1),
                        !.stack[d].blines = Append(@, text),
                        !.stack[d].kids = Append(@, [start |-> lineNo, err |-> err,
                                                     text |-> text, count |-> count,
                                                     at |-> Len(m.stack[d].blines) + 1])])

\* done that, after an equal-indent marker, calls nothing on an error
doneStallsOnError(m, err, text, count) ==
  LET d == Len(m.stack)
  IN IF m.stack[d].mode = "sibling"
       THEN IF err # NULL THEN [m EXCEPT !.status = "stalled"]
            ELSE nextLine([m EXCEPT !.stack[d].out = @ \o text,
                                    !.stack[d].mode = "scan"])
       ELSE blockNext(m, err, text, count)

\* done(err, compiled, count) as complete's callback calls it
done(m, err, text, count) ==
  LET d == Len(m.stack)
  IN IF m.stack[d].mode = "sibling"
       THEN IF err # NULL THEN blockNext(m, err, UNDEFINED, 0)
            ELSE nextLine([m EXCEPT !.stack[d].out = @ \o text,
                                    !.stack[d].mode = "scan"])
       ELSE blockNext(m, err, text, count)

\* the callback complete gives to self.compile (lines 185-188), once the
\* pipeline has called it; pad throws on a result that is no string
compiled(m) ==
  IF m.run.phase # "done" THEN [m EXCEPT !.status = "waiting"]
  ELSE LET d   == Len(m.stack)
           res == m.run.delivered[1]
           n   == Len(m.log)
       IN IF res.err # NULL
            THEN done([m EXCEPT !.log[n].err = res.err], res.err, UNDEFINED, 0)
          ELSE IF res.val.kind # "str" THEN [m EXCEPT !.status = "threw"]
          ELSE LET text == pad(res.val.s, m.stack[d].base)
               IN done([m EXCEPT !.log[n].err = NULL, !.log[n].out = text],
                       NULL, text, m.stack[d].lineNo - m.stack[d].start)

\* the keys of an options object given by its symbols
KeysOf(options) == {options[k] : k \in 1..Len(options)}

\* complete without the copy: the caller's object itself is passed on
shareOptions(m) == [heap |-> m.heap, obj |-> 1]

\* Object.assign({}, options): a new object with the keys options has now
cloneOptions(m) == [heap |-> Append(m.heap, m.heap[1]), obj |-> Len(m.heap) + 1]

\* complete(done): self.compile(block.ext, block.lines.join("\n"),
\* Object.assign({}, options), callback); mode names the done it was given
complete(m, mode) ==
  LET d    == Len(m.stack)
      F    == m.stack[d]
      text == join(F.blines, <<"\n">>)
      call == compile(m.reg, "p1", extKey(F.ext))
      copy == cloneOptions(m)
      m1   == [m EXCEPT !.stack[d].mode = mode,
                        !.heap = copy.heap,
                        !.log = Append(@, [ext |-> F.ext, text |-> text,
                                           options |-> m.options,
                                           start |-> F.start, depth |-> d,
                                           members |-> F.blines, kids |-> F.kids,
                                           marker |-> m.lines[F.start],
                                           mode |-> mode, sibs |-> F.sibs,
                                           obj |-> copy.obj,
                                           seen |-> copy.heap[copy.obj],
                                           err |-> PENDING, out |-> UNDEFINED])]
  IN IF call.wildcard THEN [m1 EXCEPT !.status = "nested"]
     ELSE IF call.threw THEN [m1 EXCEPT !.status = "threw"]
     ELSE LET pipe == createPipeline(mappings(m.reg, "p1")[extKey(F.ext)])
          IN compiled([m1 EXCEPT !.pipe = pipe,
                                 !.run = pipelineFn(Idle, "", pipe, Str(text), m.options)])

\* nextLine() of the innermost block (lines 192-226)
nextLine(m) ==
  LET d      == Len(m.stack)
      F      == m.stack[d]
      lineNo == F.lineNo + 1
      m1     == [m EXCEPT !.stack[d].lineNo = lineNo]
      line   == IF lineNo <= Len(m.lines) THEN m.lines[lineNo] ELSE UNDEFINED
  IN IF line = UNDEFINED THEN complete(m1, "next")
     ELSE IF LeadingSpace(line) < F.base THEN complete(m1, "next")
     ELSE IF test(line)
       THEN IF LeadingSpace(line) > F.base
              THEN compileBlock(m1, lineNo)
              ELSE complete([m1 EXCEPT !.stack[d].sibs =
                               Append(@, [line |-> line,
                                          ext |-> parseCompiler(line).ext,
                                          at |-> Len(F.blines)]),
                                       !.used = Append(@, [id |-> m.ids[lineNo],
                                                           depth |-> d,
                                                           as |-> "sibling"])],
                            "sibling")
     ELSE nextLine([m1 EXCEPT !.stack[d].blines = Append(@, line),
                              !.used = Append(@, [id |-> m.ids[lineNo], depth |-> d,
                                                  as |-> "member"])])

\* compileBlock(lines, lineNo, options, next)
compileBlock(m, lineNo) ==
  LET block == parseCompiler(m.lines[lineNo])
      ext   == extKey(block.ext)
      reg   == IF hasPipeline(m.reg, "p1", ext) THEN m.reg
               ELSE addPipeline(m.reg, "p1", ext, UNDEFINED)
      frame == [start |-> lineNo, lineNo |-> lineNo, ext |-> block.ext,
                base |-> Len(block.indent), blines |-> block.lines,
                out |-> <<>>, mode |-> "scan", kids |-> <<>>, sibs |-> <<>>]
  IN IF block.threw \/ reg.threw THEN [m EXCEPT !.status = "threw"]
     ELSE nextLine([m EXCEPT !.reg = reg, !.stack = Append(@, frame),
                             !.used = Append(@, [id |-> m.ids[lineNo],
                                                 depth |-> Len(m.stack) + 1,
                                                 as |-> "marker"])])

\* compileWildcard(str, options, next)
compileWildcard(m, str, options) ==
  compileBlock([m EXCEPT !.str = str, !.options = options,
                         !.lines = splitLines(str),
                         !.ids = [k \in 1..Len(splitLines(str)) |-> k],
                         !.heap = <<KeysOf(options)>>,
                         !.status = "running"], 1)

----------------------------------------------------------------------------
(* Registry specification *)

MaxOps == 3

World == [core |-> core, pipelines |-> pipelines, nextId |-> nextId,
          threw |-> FALSE, ret |-> 0]

\* the module as loaded, no instance yet
Loaded == [core |-> CoreLiteral, pipelines |-> [i \in Instances |-> <<>>],
           nextId |-> 1, threw |-> FALSE, ret |-> 0]

\* the options.mappings objects instances are constructed with
OptionMappings ==
  { <<>>,
    [e \in {"xyz", "abc"} |-> CH_AB],
    [e \in {"js"} |-> CH_A],
    [e \in {"xyz"} |-> WILDCARD] }

\* the chain arguments of addPipeline and getPipeline
AddChains == {UNDEFINED, <<>>, CH_AB, WILDCARD, CH_A_AT_BC}

GetChains == {CH_AB, <<"javascript">>, CH_A_AT_BC}

\* the extensions the registry calls are made with
OpExts == {"js", "xyz", "abc"}

\* a registry call: op(inst, ext, chain), whether it threw, the pipeline it
\* returned (ret), the pipeline cached under its chain when it was made
\* (before), how many pipelines it built, whether it changed the registry,
\* and whether every call so far returned normally (clean)
NoCall == [op |-> "none", inst |-> "", ext |-> "", chain |-> <<>>,
           threw |-> FALSE, ret |-> 0, wildcard |-> FALSE,
           before |-> 0, built |-> 0, changed |-> FALSE, clean |-> TRUE]

Commit(w, call) ==
  /\ core' = w.core
  /\ pipelines' = w.pipelines
  /\ nextId' = w.nextId
  /\ last' = [call EXCEPT !.threw = w.threw,
                          !.built = w.nextId - nextId,
                          !.changed = (w.core # core \/ w.pipelines # pipelines),
                          !.clean = (last.clean /\ ~w.threw)]
  /\ nops' = nops + 1
  /\ UNCHANGED <<pipeVars, padCall, wc>>

InitRegistry ==
  \E m \in OptionMappings :
    LET w == Pipemaker(Loaded, "p1", m)
    IN /\ ~w.threw
       /\ core = w.core
       /\ pipelines = w.pipelines
       /\ nextId = w.nextId
       /\ instances = {"p1"}
       /\ last = NoCall
       /\ nops = 0
       /\ made = [f \in Slots |-> NotMade]
       /\ runs = [r \in Runs |-> Idle]
       /\ padCall = NoPad
       /\ wc = NoWildcard

\* new Pipemaker({mappings: m}); an instance whose constructor throws is
\* never seen by the caller, what the constructor wrote to `core` stays
Construct(i, m) ==
  /\ nops < MaxOps
  /\ i \notin instances
  /\ LET w == Pipemaker(World, i, m)
     IN /\ instances' = IF w.threw THEN instances ELSE instances \cup {i}
        /\ Commit(IF w.threw THEN [w EXCEPT !.pipelines[i] = <<>>] ELSE w,
                  [NoCall EXCEPT !.op = "new", !.inst = i])

\* instance.addPipeline(ext, chain)
Add(i, ext, chain) ==
  /\ nops < MaxOps
  /\ i \in instances
  /\ LET w == addPipeline(World, i, ext, chain)
         c == mappings(w, i)[ext]
     IN /\ Commit(w, [NoCall EXCEPT !.op = "add", !.inst = i, !.ext = ext,
                                     !.chain = c, !.ret = w.ret,
                                     !.before = pipelineAt(World, i, c)])
        /\ UNCHANGED instances

\* instance.getPipeline(chain)
Get(i, chain) ==
  /\ nops < MaxOps
  /\ i \in instances
  /\ LET w == getPipeline(World, i, chain)
     IN /\ Commit(w, [NoCall EXCEPT !.op = "get", !.inst = i, !.chain = chain,
                                     !.ret = w.ret,
                                     !.before = pipelineAt(World, i, chain)])
        /\ UNCHANGED instances

\* instance.removePipeline(ext)
Remove(i, ext) ==
  /\ nops < MaxOps
  /\ i \in instances
  /\ LET w == removePipeline(World, i, ext)
         c == mappings(World, i)[ext]
     IN /\ Commit(w, [NoCall EXCEPT !.op = "remove", !.inst = i, !.ext = ext,
                                     !.chain = c,
                                     !.before = pipelineAt(World, i, c)])
        /\ UNCHANGED instances

\* instance.compile(ext, ...), up to the call of the pipeline it selects
Compile(i, ext) ==
  /\ nops < MaxOps
  /\ i \in instances
  /\ LET r == compile(World, i, ext)
         c == mappings(World, i)[ext]
     IN /\ Commit([World EXCEPT !.threw = r.threw],
                  [NoCall EXCEPT !.op = "compile", !.inst = i, !.ext = ext,
                                 !.chain = c, !.ret = r.ret,
                                 !.wildcard = r.wildcard,
                                 !.before = pipelineAt(World, i, c)])
        /\ UNCHANGED instances

NextRegistry ==
  \/ \E i \in Instances, m \in OptionMappings : Construct(i, m)
  \/ \E i \in Instances, ext \in OpExts, chain \in AddChains : Add(i, ext, chain)
  \/ \E i \in Instances, chain \in GetChains : Get(i, chain)
  \/ \E i \in Instances, ext \in OpExts : Remove(i, ext)
  \/ \E i \in Instances, ext \in OpExts : Compile(i, ext)

SpecRegistry == InitRegistry /\ [][NextRegistry]_vars

----------------------------------------------------------------------------
(* Claims about the registry, checked under SpecRegistry *)

BuiltIns == {"js", "html", "css"}

\* C5: after remove("js") the registry has js again, mapped to the built-in
\* default chain "javascript", whatever js was mapped to before; after
\* remove of a non-built-in extension has(ext) is false, and removing a
\* non-built-in extension that has no mapping changes nothing and does not
\* throw.
C5_RemoveResetsBuiltIn ==
  last.op = "remove" =>
    /\ last.ext \in BuiltIns =>
         /\ hasPipeline(World, last.inst, last.ext)
         /\ mappings(World, last.inst)[last.ext] = CoreLiteral[last.ext]
    /\ last.ext \notin BuiltIns =>
         /\ ~hasPipeline(World, last.inst, last.ext)
         /\ ~last.threw
         /\ (last.chain = UNDEFINED => ~last.changed)

\* C6: remove(e1) keeps the cached pipeline of e1's chain when another
\* extension e2 is still mapped to that chain.
C6_RemoveKeepsSharedPipeline ==
  ( /\ last.op = "remove"
    /\ last.before # 0
    /\ \E e2 \in Exts \ {last.ext} : mappings(World, last.inst)[e2] = last.chain )
  => pipelineAt(World, last.inst, last.chain) = last.before

\* C10: while a chain is cached, get(chain) and add(ext, chain) return the
\* cached pipeline and build nothing, the cache entry stays the same
\* pipeline, compile of every extension mapped to a chain invokes the one
\* pipeline cached under that chain, and every key of the cache is a chain
\* string that was built, never the wildcard or a missing mapping.
C10_CachedPipelineShared ==
  /\ (last.op \in {"add", "get"} /\ last.before # 0) =>
       /\ last.ret = last.before
       /\ pipelineAt(World, last.inst, last.chain) = last.before
       /\ last.built = 0
       /\ ~last.threw
  /\ (last.op \in {"add", "get"} /\ last.before = 0 /\ ~last.threw
        /\ last.chain # WILDCARD) =>
       /\ last.built = 1
       /\ last.ret = pipelineAt(World, last.inst, last.chain)
       /\ last.ret # 0
  /\ \A i \in instances : \A e1, e2 \in Exts :
       ( /\ mappings(World, i)[e1] = mappings(World, i)[e2]
         /\ ~compile(World, i, e1).threw
         /\ ~compile(World, i, e1).wildcard )
       => /\ compile(World, i, e2).ret = compile(World, i, e1).ret
          /\ compile(World, i, e1).ret = pipelineAt(World, i, mappings(World, i)[e1])
  /\ \A i \in Instances : \A k \in DOMAIN pipelines[i] :
       /\ k \notin {UNDEFINED, WILDCARD}
       /\ ~createPipeline(k).threw
       /\ pipelines[i][k] \in 1..(nextId - 1)
  /\ \A i \in Instances : \A k1, k2 \in DOMAIN pipelines[i] :
       pipelines[i][k1] = pipelines[i][k2] => k1 = k2

\* C13: add(ext, "*") records the wildcard in the mapping of ext and does
\* nothing else: the pipeline cache is unchanged and nothing is built, no
\* pipeline is returned, the mappings of the other extensions are
\* unchanged, and has(ext) is true afterwards; and at all times has(ext) is
\* true exactly when ext has a mapping, a chain name or the wildcard.
C13_AddWildcardOnlyRecordsMapping ==
  /\ [](\A i \in instances : \A e \in Exts :
          hasPipeline(World, i, e) <=> mappings(World, i)[e] # UNDEFINED)
  /\ [][\A i \in Instances, ext \in OpExts :
          Add(i, ext, WILDCARD) =>
            /\ pipelines' = pipelines
            /\ nextId' = nextId
            /\ ~last'.threw
            /\ last'.ret = 0
            /\ core'[ext] = WILDCARD
            /\ Truthy(core'[ext])
            /\ \A e \in Exts \ {ext} : core'[e] = core[e]]_vars

\* C13 witness: add(ext, "*") was called on an instance that has pipelines
\* cached, for an extension that had a chain before or had none
C13_Witness ==
  /\ last.op = "add"
  /\ last.chain = WILDCARD
  /\ last.ret = 0
  /\ hasPipeline(World, last.inst, last.ext)
  /\ DOMAIN pipelines[last.inst] # {}

\* C20: after construction and add, get and remove calls that all returned
\* normally, every extension mapped to a chain name has a pipeline cached
\* under that chain name, so compile(ext, ...) of an extension with
\* has(ext) true never finds its pipeline missing.
C20_MappedChainIsCached ==
  last.clean =>
    \A i \in instances : \A e \in Exts :
      hasPipeline(World, i, e) =>
        /\ ~compile(World, i, e).threw
        /\ mappings(World, i)[e] # WILDCARD =>
             pipelineAt(World, i, mappings(World, i)[e]) # 0

\* C21: instances are independent and the built-in defaults constant: a
\* construction with custom mappings, an add or a remove on one instance
\* changes the mapping and has(ext) of no extension on another instance,
\* and an instance constructed without mappings is seeded with js, html
\* and css mapped to the built-in default chains.
C21_InstancesIndependent ==
  [][/\ (\A i \in instances : \A e \in Exts :
           (last'.op \in {"new", "add", "remove"} /\ last'.inst # i) =>
             /\ mappings([World EXCEPT !.core = core'], i)[e] = mappings(World, i)[e]
             /\ hasPipeline([World EXCEPT !.core = core'], i, e) = hasPipeline(World, i, e))
      /\ (\A j \in Instances :
           Construct(j, <<>>) =>
             \A b \in BuiltIns :
               mappings([World EXCEPT !.core = core'], j)[b] = CoreLiteral[b])]_vars

\* C22: an add(ext, chainSpec) that throws the configuration error leaves
\* the registry unchanged: the mapping of ext is what it was and no
\* pipeline is cached under chainSpec.
C22_FailedAddChangesNothing ==
  (last.op = "add" /\ last.threw) =>
    /\ ~last.changed
    /\ mappings(World, last.inst)[last.ext] # CH_A_AT_BC
    /\ pipelineAt(World, last.inst, CH_A_AT_BC) = 0

\* C10 witness: add(e2, c) returned the pipeline that was already cached
\* under c and that another extension e1 is mapped to
C10_Witness ==
  /\ last.op = "add"
  /\ last.before # 0
  /\ last.ret = last.before
  /\ \E e1 \in Exts \ {last.ext} : mappings(World, last.inst)[e1] = last.chain
  /\ last.chain = CH_AB

----------------------------------------------------------------------------
(* Pipeline specification: pipeline functions obtained from createPipeline *)
(* on the instance `new Pipemaker()` and invoked by a caller; every stage  *)
(* is a suspension point and calls its continuation once.                  *)

TestChains == {CH_A, CH_ABC, CH_A_AT, CH_AT_B, CH_A_AT_B, CH_AB_AT_C,
               CH_A_AT_BC, CH_AT_B_AT_C}

Inputs == {Str(<<"X">>), Str(<<"Y">>)}

CallerOptions == {<<"opt">>}

Outcomes == {"err", "str", "fn"}

InitPipeline ==
  /\ LET w == Pipemaker(Loaded, "p1", <<>>)
     IN /\ core = w.core
        /\ pipelines = w.pipelines
        /\ nextId = w.nextId
  /\ instances = {"p1"}
  /\ last = NoCall
  /\ nops = 0
  /\ made = [f \in Slots |-> NotMade]
  /\ runs = [r \in Runs |-> Idle]
  /\ padCall = NoPad
  /\ wc = NoWildcard

\* f = pipemaker.createPipeline(chain)
CreatePipeline(f, chain) ==
  /\ made[f].status = "none"
  /\ LET p == createPipeline(chain)
     IN made' = [made EXCEPT ![f] =
                   [status |-> IF p.threw THEN "threw" ELSE "ok", chain |-> chain,
                    pre |-> IF p.threw THEN <<>> ELSE p.pre,
                    post |-> IF p.threw THEN <<>> ELSE p.post,
                    which |-> IF p.threw THEN "pre" ELSE p.which]]
  /\ UNCHANGED <<regVars, runs, padCall, wc>>

\* f(str, options, next)
StartRun(r, f, str, options) ==
  /\ runs[r].phase = "idle"
  /\ made[f].status = "ok"
  /\ runs' = [runs EXCEPT ![r] = pipelineFn(runs[r], f, made[f], str, options)]
  /\ made' = [made EXCEPT ![f] = storeTasks(@, runs'[r])]
  /\ UNCHANGED <<regVars, padCall, wc>>

\* the stage a run waits for calls its continuation
StageReturn(r, how) ==
  /\ runs[r].phase \in {"pre", "post"}
  /\ LET run  == loadTasks(runs[r], made[runs[r].pipe])
         c    == run.calls[Len(run.calls)]
         res  == StageResult(c.stage, c.input, how)
         run1 == [run EXCEPT !.rets = Append(@, res)]
     IN runs' = [runs EXCEPT ![r] =
                   IF run.phase = "pre"
                     THEN taskDone(run1, made[run.pipe], res.err, res.val)
                     ELSE postDone(run1, res.err, res.val)]
  /\ made' = [made EXCEPT ![runs[r].pipe] = storeTasks(@, runs'[r])]
  /\ UNCHANGED <<regVars, padCall, wc>>

NextPipeline ==
  \/ \E f \in Slots, chain \in TestChains : CreatePipeline(f, chain)
  \/ \E r \in Runs, f \in Slots, str \in Inputs, options \in CallerOptions :
       StartRun(r, f, str, options)
  \/ \E r \in Runs, how \in Outcomes : StageReturn(r, how)

SpecPipeline == InitPipeline /\ [][NextPipeline]_vars

----------------------------------------------------------------------------
(* Claims about pipelines, checked under SpecPipeline *)

\* the chain string a run's pipeline function was created from
ChainOf(r) == IF runs[r].pipe \in Slots THEN made[runs[r].pipe].chain ELSE <<>>

\* the stage names of a chain string, in the order written
StageNames(chain) == SelectSeq(split(chain, ">"), LAMBDA t : t # AT)

RECURSIVE CountAfterAt(_, _)
\* the number of stage tokens that follow the first "@" of a token list
CountAfterAt(tokens, seen) ==
  IF tokens = <<>> THEN 0
  ELSE IF Head(tokens) = AT THEN CountAfterAt(Tail(tokens), TRUE)
  ELSE (IF seen THEN 1 ELSE 0) + CountAfterAt(Tail(tokens), seen)

StagesAfterAt(chain) == CountAfterAt(split(chain, ">"), FALSE)

\* the stages of a started run are invoked in the order of the chain, one
\* at a time, the first with the caller's input
StagesInOrder(run, chain) ==
  /\ Len(run.calls) <= Len(StageNames(chain))
  /\ Len(run.calls) <= Len(run.rets) + 1
  /\ \A k \in 1..Len(run.calls) : run.calls[k].stage = StageNames(chain)[k]
  /\ Len(run.calls) >= 1 => run.calls[1].input = run.str

\* C1 as stated: for chain "a>b>c" (and every other chain) the stages are
\* invoked in the order written, the first receives the input X, each later
\* stage receives the output the preceding stage passed to its continuation,
\* and no stage is invoked before the preceding one called its continuation.
C1_EachStageReceivesPrecedingOutput ==
  \A r \in Runs : runs[r].phase # "idle" =>
    /\ StagesInOrder(runs[r], ChainOf(r))
    /\ \A k \in 2..Len(runs[r].calls) :
         runs[r].calls[k].input = runs[r].rets[k - 1].val

\* C1 amended: as C1, but a later stage receives the preceding stage's
\* output when that is a string and, when it is a function, the value the
\* function returns when called with the run's options.
C1_EachStageReceivesForcedOutput ==
  \A r \in Runs : runs[r].phase # "idle" =>
    /\ StagesInOrder(runs[r], ChainOf(r))
    /\ \A k \in 2..Len(runs[r].calls) :
         LET out == runs[r].rets[k - 1].val
         IN /\ runs[r].rets[k - 1].err = NULL
            /\ out.kind = "str" => runs[r].calls[k].input = out
            /\ out.kind = "fn" => runs[r].calls[k].input = Call(out, runs[r].options)

\* C1 witness: a run of "a>b>c" finished after a, b, c were invoked, a
\* having produced a function and b a string
C1_Witness ==
  \E r \in Runs :
    /\ ChainOf(r) = CH_ABC
    /\ runs[r].phase = "done"
    /\ Len(runs[r].calls) = 3
    /\ runs[r].rets[1].val.kind = "fn"
    /\ runs[r].rets[2].val.kind = "str"
    /\ runs[r].delivered[1].err = NULL

\* C2: when a stage of any chain, pre or post, passes an error to its
\* continuation, no later stage is invoked and the pipeline's continuation
\* is invoked exactly once, with that error and no output value; no run
\* invokes the pipeline's continuation twice.
C2_FirstErrorAborts ==
  \A r \in Runs :
    /\ Len(runs[r].delivered) <= 1
    /\ \A k \in 1..Len(runs[r].rets) :
         runs[r].rets[k].err # NULL =>
           /\ Len(runs[r].calls) = k
           /\ runs[r].phase = "done"
           /\ runs[r].delivered = <<[err |-> runs[r].rets[k].err, val |-> NoValue]>>

\* C2 witness: stage b of "a>b>c" failed
C2_Witness ==
  \E r \in Runs :
    /\ ChainOf(r) = CH_ABC
    /\ Len(runs[r].rets) = 2
    /\ runs[r].rets[2].err # NULL
    /\ Len(runs[r].delivered) = 1

\* two finished runs, one of chain "a" and one of chain "a>@", on the same
\* input and options, in which stage a answered alike and did not fail
SameRunOfAAndAAt(r1, r2) ==
  /\ ChainOf(r1) = CH_A
  /\ ChainOf(r2) = CH_A_AT
  /\ runs[r1].phase = "done"
  /\ runs[r2].phase = "done"
  /\ runs[r1].str = runs[r2].str
  /\ runs[r1].options = runs[r2].options
  /\ runs[r1].rets = runs[r2].rets
  /\ runs[r1].delivered[1].err = NULL

\* C3 as stated: the result of "a>@" is a function whose return value is
\* the string that "a" delivers directly.
C3_AtAloneDeliversThunk ==
  \A r1, r2 \in Runs : SameRunOfAAndAAt(r1, r2) =>
    /\ runs[r2].delivered[1].err = NULL
    /\ runs[r2].delivered[1].val.kind \in {"thunk", "fn"}
    /\ Call(runs[r2].delivered[1].val, <<>>) = runs[r1].delivered[1].val

\* C3 amended: chains "a" and "a>@" deliver the same result, the string
\* itself; "@" with no stage after it changes nothing.
C3_AtAloneDeliversSameString ==
  \A r1, r2 \in Runs : SameRunOfAAndAAt(r1, r2) =>
    /\ runs[r2].delivered = runs[r1].delivered
    /\ runs[r2].delivered[1].val.kind = "str"

\* C3 witness: such a pair of runs
C3_Witness ==
  \E r1, r2 \in Runs : SameRunOfAAndAAt(r1, r2) /\ Len(runs[r2].delivered) = 1

\* C4: createPipeline throws exactly when more than one stage token follows
\* "@"; a pipeline function whose construction threw does not exist, so no
\* stage is executed and no continuation used for it; every other chain
\* yields a pipeline function.
C4_ThrowsIffTwoStagesAfterAt ==
  \A f \in Slots : made[f].status # "none" =>
    /\ (made[f].status = "threw") <=> (StagesAfterAt(made[f].chain) > 1)
    /\ made[f].status = "threw" =>
         \A r \in Runs : runs[r].pipe # f
    /\ made[f].status = "ok" =>
         /\ Len(made[f].post) <= 1
         /\ made[f].pre \o made[f].post = StageNames(made[f].chain)

\* C4 witness: "a>@>b>c" threw and "a>@>b" returned a pipeline function
C4_Witness ==
  \E f, g \in Slots :
    /\ made[f].chain = CH_A_AT_BC /\ made[f].status = "threw"
    /\ made[g].chain = CH_A_AT_B /\ made[g].status = "ok"

----------------------------------------------------------------------------
(* Specification of the helper pad: one call pad(str, minIndent) on a      *)
(* compiled text of at most MaxLen characters                              *)

MaxLen == 4

MaxIndent == 3

PadAlphabet == {" ", "\n", "x"}

PadStrings == UNION {[1..n -> PadAlphabet] : n \in 0..MaxLen}

InitPad ==
  /\ LET w == Pipemaker(Loaded, "p1", <<>>)
     IN /\ core = w.core
        /\ pipelines = w.pipelines
        /\ nextId = w.nextId
  /\ instances = {"p1"}
  /\ last = NoCall
  /\ nops = 0
  /\ made = [f \in Slots |-> NotMade]
  /\ runs = [r \in Runs |-> Idle]
  /\ \E str \in PadStrings, minIndent \in 0..MaxIndent :
       padCall = [NoPad EXCEPT !.str = str, !.minIndent = minIndent]
  /\ wc = NoWildcard

\* pad(str, minIndent) as complete calls it on a compiled text
CallPad ==
  /\ ~padCall.done
  /\ padCall' = [padCall EXCEPT !.done = TRUE,
                                !.out = pad(padCall.str, padCall.minIndent)]
  /\ UNCHANGED <<regVars, pipeVars, wc>>

NextPad == CallPad

SpecPad == InitPad /\ [][NextPad]_vars

\* C8: the text a closing block returns is the compiled result padded so
\* that every one of its lines has at least `base` leading whitespace
\* characters, whatever the indentation of the individual lines.
C8_EveryLineIndentedToBase ==
  padCall.done =>
    \A k \in 1..Len(splitLines(padCall.out)) :
      LeadingSpace(splitLines(padCall.out)[k]) >= padCall.minIndent

----------------------------------------------------------------------------
(* Wildcard specification: one call compileWildcard(str, options, next) on *)
(* the instance `new Pipemaker()`, for a document of at most MaxLines      *)
(* lines; the stage of each block's pipeline is a suspension point         *)

MaxLines == 4

\* the lines documents are made of: markers and text at indents 0, 1, 2,
\* and a line with text before the ">>"
DocLines ==
  { <<">", ">", " ", "js">>,
    <<" ", ">", ">", " ", "css">>,
    <<" ", " ", ">", ">", " ", "xyz">>,
    <<"t">>,
    <<" ", "t">>,
    <<" ", " ", "t">>,
    <<"t", " ", ">", ">", " ", "js">> }

Documents == UNION {[1..n -> DocLines] : n \in 1..MaxLines}

\* what a stage does: fail, return a string, return its input, or add a
\* key to the options object it was given and return a string
WildOutcomes == {"err", "str", "same", "key"}

\* the machine the variables hold
Machine ==
  [status |-> wc.status, str |-> wc.str, options |-> wc.options,
   lines |-> wc.lines, stack |-> wc.stack, run |-> wc.run, pipe |-> wc.pipe,
   log |-> wc.log, delivered |-> wc.delivered, ids |-> wc.ids,
   used |-> wc.used, heap |-> wc.heap, steps |-> wc.steps, reg |-> World]

CommitWildcard(m) ==
  /\ core' = m.reg.core
  /\ pipelines' = m.reg.pipelines
  /\ nextId' = m.reg.nextId
  /\ wc' = [status |-> m.status, str |-> m.str, options |-> m.options,
            lines |-> m.lines, stack |-> m.stack, run |-> m.run, pipe |-> m.pipe,
            log |-> m.log, delivered |-> m.delivered, ids |-> m.ids,
            used |-> m.used, heap |-> m.heap, steps |-> wc.steps + 1]
  /\ UNCHANGED <<instances, last, nops, pipeVars, padCall>>

InitWildcard ==
  /\ LET w == Pipemaker(Loaded, "p1", <<>>)
     IN /\ core = w.core
        /\ pipelines = w.pipelines
        /\ nextId = w.nextId
  /\ instances = {"p1"}
  /\ last = NoCall
  /\ nops = 0
  /\ made = [f \in Slots |-> NotMade]
  /\ runs = [r \in Runs |-> Idle]
  /\ padCall = NoPad
  /\ \E doc \in Documents : wc = [NoWildcard EXCEPT !.str = join(doc, <<"\n">>)]

\* pipemaker.compileWildcard(str, options, next)
CompileWildcard(options) ==
  /\ wc.status = "none"
  /\ CommitWildcard(compileWildcard(Machine, wc.str, options))

\* the stage the awaited pipeline run waits for calls its continuation
WildStageReturn(how) ==
  /\ wc.status = "waiting"
  /\ LET run  == wc.run
         c    == run.calls[Len(run.calls)]
         res  == StageResult(c.stage, c.input, IF how = "key" THEN "str" ELSE how)
         run1 == [run EXCEPT !.rets = Append(@, res)]
         run2 == IF run.phase = "pre"
                   THEN taskDone(run1, wc.pipe, res.err, res.val)
                   ELSE postDone(run1, res.err, res.val)
         obj  == wc.log[Len(wc.log)].obj
         heap == IF how = "key" /\ run.phase = "pre"
                   THEN [wc.heap EXCEPT ![obj] = @ \cup {c.stage[1]}]
                   ELSE wc.heap
     IN CommitWildcard(compiled([Machine EXCEPT !.run = run2, !.heap = heap]))

NextWildcard ==
  \/ \E options \in CallerOptions : CompileWildcard(options)
  \/ \E how \in WildOutcomes : WildStageReturn(how)

SpecWildcard == InitWildcard /\ [][NextWildcard]_vars

----------------------------------------------------------------------------
(* Claims about the wildcard compiler, checked under SpecWildcard *)

\* C7: a compile failure of any block, nested or not, aborts the wildcard
\* compilation: the error is delivered to the caller's continuation and no
\* compile is started afterwards.
C7_BlockFailureAborts ==
  \A k \in 1..Len(wc.log) :
    wc.log[k].err \notin {NULL, PENDING} =>
      /\ k = Len(wc.log)
      /\ wc.status = "done"
      /\ wc.delivered = <<[err |-> wc.log[k].err, val |-> NoValue]>>

\* the marker a compile call belongs to when every equal-indent marker
\* starts a block of its own: the last such marker the scan went past, the
\* block's own marker when there is none; ext is the extension it names,
\* at the number of member lines that were accumulated before it
OwnerOf(entry) ==
  LET n == IF entry.mode = "sibling" THEN Len(entry.sibs) - 1 ELSE Len(entry.sibs)
  IN IF n = 0 THEN [ext |-> entry.ext, at |-> 0]
     ELSE [ext |-> entry.sibs[n].ext, at |-> entry.sibs[n].at]

\* C14: a marker line at the block's base indent closes the block with the
\* members accumulated before it and starts a sibling block: the lines
\* after it are compiled with the extension the sibling's marker names and
\* are not compiled together with the earlier block's members.
C14_SiblingStartsFreshBlock ==
  \A k \in 1..Len(wc.log) :
    LET entry == wc.log[k]
        owner == OwnerOf(entry)
    IN /\ entry.ext = owner.ext
       /\ entry.text = join(SubSeq(entry.members, owner.at + 1, Len(entry.members)),
                            <<"\n">>)

\* how many times a document line was taken by a block
TimesUsed(id) == Cardinality({k \in 1..Len(wc.used) : wc.used[k].id = id})

\* C15: the count a closing block returns lets its parent resume at the
\* first line the child did not take: no document line is taken by two
\* blocks, and when the compilation has delivered a result every line of
\* the document was taken by a block.
C15_EveryLineTakenOnce ==
  /\ \A id \in 1..Len(splitLines(wc.str)) : TimesUsed(id) <= 1
  /\ (wc.status = "done" /\ wc.delivered[1].err = NULL) =>
       \A id \in 1..Len(splitLines(wc.str)) : TimesUsed(id) = 1

\* C15 for the runs in which no compile failed and the first marker has no
\* indent
C15_HoldsWithoutFailureAtIndentZero ==
  ( /\ \A k \in 1..Len(wc.log) : wc.log[k].err \in {NULL, PENDING}
    /\ wc.status # "none"
    /\ LeadingSpace(wc.str) = 0 /\ testAnchored(splitLines(wc.str)[1]) )
  => C15_EveryLineTakenOnce

\* C16: compileWildcard on text whose first line is no marker calls the
\* continuation once, with an error, and raises nothing.
C16_MalformedMarkerDelivered ==
  (wc.status # "none" /\ ~test(splitLines(wc.str)[1])) =>
    /\ wc.status = "done"
    /\ Len(wc.delivered) = 1
    /\ wc.delivered[1].err # NULL

\* C17: each block's compile gets a copy of its own of the options: a key
\* a stage added during one block's compile is in the options of no other
\* block's compile and not in the object the caller passed.
C17_EachBlockOwnOptions ==
  /\ wc.status # "none" => wc.heap[1] = KeysOf(wc.options)
  /\ \A k \in 1..Len(wc.log) :
       /\ wc.log[k].seen = KeysOf(wc.options)
       /\ wc.log[k].obj # 1
       /\ \A j \in 1..Len(wc.log) : j # k => wc.log[j].obj # wc.log[k].obj

\* C17 witness: a block's compile started after a stage had added a key
\* during the compile of another block
C17_Witness ==
  \E j, k \in 1..Len(wc.log) :
    /\ j < k
    /\ wc.heap[wc.log[j].obj] # KeysOf(wc.options)
    /\ wc.log[k].seen = KeysOf(wc.options)

\* the document lines, as the caller wrote them
DocLine(id) == splitLines(wc.str)[id]

\* the marker lines of the document
MarkerIds == {id \in 1..Len(splitLines(wc.str)) : test(DocLine(id))}

\* C24: in a wildcard compile that delivers a result, compile is invoked
\* once for each marker line of the document, with the extension that
\* marker names: as many compile calls as marker lines, and for every
\* extension as many calls as markers naming it.
C24_OneCompilePerMarker ==
  (wc.status = "done" /\ wc.delivered[1].err = NULL) =>
    /\ Len(wc.log) = Cardinality(MarkerIds)
    /\ \A id \in MarkerIds :
         LET ext == parseCompiler(DocLine(id)).ext
         IN Cardinality({k \in 1..Len(wc.log) : wc.log[k].ext = ext}) =
            Cardinality({j \in MarkerIds : parseCompiler(DocLine(j)).ext = ext})

\* the guards of the two actions: the call has not been made, or a stage
\* is due to call its continuation
CanStep == wc.status \in {"none", "waiting"}

\* the steps that show in the state: the call, and each compile a stage
\* has answered
Steps ==
  (IF wc.status = "none" THEN 0 ELSE 1)
    + Cardinality({k \in 1..Len(wc.log) : wc.log[k].err # PENDING})

\* a bound on the steps a document of n lines can take: after a failed
\* child the parent scans the child's lines again, so the lines after a
\* marker can be compiled once for each marker before them
MaxSteps ==
  LET n == 1 + Cardinality({i \in 1..Len(wc.str) : IsLineBreak(wc.str[i])})
  IN 1 + n * n

\* C25: for a document whose first line is a marker, compileWildcard
\* terminates: while the caller's continuation has not been invoked a step
\* is due (the call, or the answer of a stage, which comes), every step
\* taken shows as the call or as one more answered compile, and their
\* number has a bound that depends on the document alone; the
\* continuation is invoked once, by then no block is open and no compile
\* is pending, and no step is due afterwards.
C25_Terminates ==
  /\ (wc.status = "done" \/ CanStep \/ ~test(DocLine(1)))
  /\ wc.steps = Steps
  /\ Steps <= MaxSteps
  /\ Len(wc.delivered) <= 1
  /\ wc.status = "done" =>
       /\ ~CanStep
       /\ Len(wc.delivered) = 1
       /\ wc.stack = <<>>
       /\ wc.run.phase \in {"done", "idle"}
       /\ \A k \in 1..Len(wc.log) : wc.log[k].err # PENDING

\* C25 witness: the continuation was invoked for a document in which a
\* child block was closed by an outdented line and the parent block met a
\* marker at its own indent
C25_Witness ==
  /\ wc.status = "done"
  /\ Len(wc.delivered) = 1
  /\ \E k \in 1..Len(wc.log) : wc.log[k].kids # <<>> /\ wc.log[k].sibs # <<>>
  /\ \E k \in 1..Len(wc.used) : wc.used[k].as = "member" /\ wc.used[k].depth = 1

\* C19: a line of a block with other text before ">>" is no marker: it is
\* taken as a raw member line, it opens no child block and closes no block.
C19_TextBeforeArrowsIsMember ==
  \A k \in 1..Len(wc.used) :
    LET u == wc.used[k]
    IN (u.id > 1 /\ ~testAnchored(DocLine(u.id))) => u.as = "member"

\* C9: when a block's scan meets a deeper marker, the child block is
\* compiled to the end before the parent goes on, the parent's own compile
\* starts after that, and the parent's compile input holds the child's
\* compiled, padded text as the one member at the child marker's place, the
\* child's lines having been taken out of the line array.
C9_ChildTextSplicedIntoParent ==
  \A k \in 1..Len(wc.log) : \A c \in 1..Len(wc.log[k].kids) :
    LET kid == wc.log[k].kids[c]
    IN /\ kid.err = NULL
       /\ kid.count >= 1
       /\ wc.log[k].members[kid.at] = kid.text
       /\ \E j \in 1..(k - 1) :
            /\ wc.log[j].depth = wc.log[k].depth + 1
            /\ wc.log[j].start = kid.start
            /\ wc.log[j].err = NULL
            /\ wc.log[j].out = kid.text

\* the part of C9 that concerns children that compiled without error
C9_HoldsForSuccessfulChildren ==
  \A k \in 1..Len(wc.log) : \A c \in 1..Len(wc.log[k].kids) :
    LET kid == wc.log[k].kids[c]
    IN kid.err = NULL =>
       /\ kid.count >= 1
       /\ wc.log[k].members[kid.at] = kid.text
       /\ \E j \in 1..(k - 1) :
            /\ wc.log[j].depth = wc.log[k].depth + 1
            /\ wc.log[j].start = kid.start
            /\ wc.log[j].err = NULL
            /\ wc.log[j].out = kid.text

\* C18: for a chain with one stage after "@", that stage is invoked once,
\* after every pre stage has answered, with the text the pre segment
\* produced; when it answers without error the pipeline delivers an
\* invocable value: a function returning the string for a string result,
\* the result itself when that is a function.
C18_PostStageOnceAndInvocable ==
  \A r \in Runs :
    (runs[r].phase # "idle" /\ Len(made[runs[r].pipe].post) = 1) =>
      LET run == runs[r]
          p   == made[run.pipe]
          n   == Len(p.pre)
      IN /\ Len(run.calls) <= n + 1
         /\ \A k \in 1..Len(run.calls) : (run.calls[k].stage = p.post[1]) <=> (k = n + 1)
         /\ Len(run.calls) = n + 1 =>
              /\ Len(run.rets) >= n
              /\ \A k \in 1..n : run.rets[k].err = NULL
              /\ run.calls[n + 1].input.kind = "str"
              /\ run.calls[n + 1].input =
                   IF n = 0 THEN run.str
                   ELSE IF run.rets[n].val.kind = "str" THEN run.rets[n].val
                   ELSE Call(run.rets[n].val, run.options)
         /\ (Len(run.rets) = n + 1 /\ run.rets[n + 1].err = NULL) =>
              /\ run.phase = "done"
              /\ Len(run.delivered) = 1
              /\ run.delivered[1].err = NULL
              /\ run.delivered[1].val.kind \in {"thunk", "fn"}
              /\ run.rets[n + 1].val.kind = "str" =>
                   /\ run.delivered[1].val.kind = "thunk"
                   /\ Call(run.delivered[1].val, EMPTY) = run.rets[n + 1].val
              /\ run.rets[n + 1].val.kind = "fn" =>
                   run.delivered[1].val = run.rets[n + 1].val

\* C18 witness: a run of "a>b>@>c" in which c answered with a string, and
\* one of "@>b" in which b answered with a function
C18_Witness ==
  \E r1, r2 \in Runs :
    /\ ChainOf(r1) = CH_AB_AT_C
    /\ Len(runs[r1].rets) = 3
    /\ runs[r1].rets[3].val.kind = "str"
    /\ runs[r1].delivered[1].val.kind = "thunk"
    /\ ChainOf(r2) = CH_AT_B
    /\ Len(runs[r2].rets) = 1
    /\ runs[r2].rets[1].val.kind = "fn"
    /\ Len(runs[r2].delivered) = 1

\* C23: a pipeline can be run any number of times, overlapping runs
\* included: every run invokes the whole stage list of the chain in order
\* on its own input, each stage on what the run's preceding stage put out,
\* and the stage lists of the pipeline stay what createPipeline built.
C23_RunsIndependent ==
  /\ \A f \in Slots : made[f].status = "ok" =>
       made[f].pre \o made[f].post = StageNames(made[f].chain)
  /\ \A r \in Runs : runs[r].phase # "idle" =>
       LET run == runs[r]
           all == StageNames(ChainOf(r))
       IN /\ StagesInOrder(run, ChainOf(r))
          /\ \A k \in 2..Len(run.calls) :
               run.calls[k].input =
                 IF run.rets[k - 1].val.kind = "str" THEN run.rets[k - 1].val
                 ELSE Call(run.rets[k - 1].val, run.options)
          /\ ( /\ Len(run.rets) = Len(run.calls)
               /\ \A k \in 1..Len(run.rets) : run.rets[k].err = NULL )
             => (Len(run.calls) = Len(all) /\ run.phase = "done")

\* C23 witness: two runs of one pipeline "a>b>c" on different inputs, one
\* suspended in stage b while the other is suspended in stage a
C23_Witness ==
  \E r1, r2 \in Runs :
    /\ runs[r1].pipe = runs[r2].pipe
    /\ ChainOf(r1) = CH_ABC
    /\ runs[r1].str # runs[r2].str
    /\ runs[r1].phase = "pre" /\ Len(runs[r1].calls) = 2
    /\ runs[r2].phase = "pre" /\ Len(runs[r2].calls) = 1

\* C12: the options the caller gave to the pipeline are handed unmodified
\* to every stage of the chain, each pre stage and the post stage.
C12_EveryStageGetsCallerOptions ==
  \A r \in Runs : \A k \in 1..Len(runs[r].calls) :
    runs[r].calls[k].options = runs[r].options

----------------------------------------------------------------------------
(* Compile specification: a caller of `new Pipemaker()` calls compile for  *)
(* the built-in extensions, with the four parameters or with the callback  *)
(* in the place of options; every stage is a suspension point.             *)

\* the caller's callback, seen as a value in the place of options
CALLBACK == <<"next">>

\* the variable of made that holds the pipeline a run of compile invoked
SlotOf == [r \in Runs |-> IF r = "r1" THEN "f1" ELSE "f2"]

\* this.pipelines[this.mappings[ext]] as the function compile invokes
pipelineOf(w, i, ext) ==
  LET chain == mappings(w, i)[ext]
      p     == createPipeline(chain)
  IN [status |-> "ok", chain |-> chain, pre |-> p.pre, post |-> p.post,
      which |-> p.which]

InitCompile == InitPipeline

\* pipemaker.compile(ext, str, options, next)
CompileCall(r, ext, str, options) ==
  /\ runs[r].phase = "idle"
  /\ ~compile(World, "p1", ext).threw
  /\ ~compile(World, "p1", ext).wildcard
  /\ made' = [made EXCEPT ![SlotOf[r]] = pipelineOf(World, "p1", ext)]
  /\ runs' = [runs EXCEPT ![r] =
                pipelineFn(runs[r], SlotOf[r], pipelineOf(World, "p1", ext),
                           str, options)]
  /\ UNCHANGED <<regVars, padCall, wc>>

\* pipemaker.compile(ext, str, next): the parameter options is bound to the
\* callback and the parameter next to undefined
CompileNoOptions(r, ext, str) ==
  /\ runs[r].phase = "idle"
  /\ ~compile(World, "p1", ext).threw
  /\ ~compile(World, "p1", ext).wildcard
  /\ made' = [made EXCEPT ![SlotOf[r]] = pipelineOf(World, "p1", ext)]
  /\ runs' = [runs EXCEPT ![r] =
                pipelineFn([runs[r] EXCEPT !.next = "undefined"], SlotOf[r],
                           pipelineOf(World, "p1", ext), str, CALLBACK)]
  /\ UNCHANGED <<regVars, padCall, wc>>

NextCompile ==
  \/ \E r \in Runs, ext \in BuiltIns, str \in Inputs : CompileCall(r, ext, str, EMPTY)
  \/ \E r \in Runs, ext \in BuiltIns, str \in Inputs : CompileNoOptions(r, ext, str)
  \/ \E r \in Runs, how \in Outcomes : StageReturn(r, how)

SpecCompile == InitCompile /\ [][NextCompile]_vars

\* C11: compile(ext, str, next), with the callback as third argument,
\* behaves as compile(ext, str, {}, next): the stages are given the options
\* {}, nothing is thrown, and the callback is what gets (err, compiled).
C11_OptionsOptional ==
  \A r \in Runs :
    runs[r].next = "undefined" =>
      /\ runs[r].phase # "threw"
      /\ \A k \in 1..Len(runs[r].calls) : runs[r].calls[k].options = EMPTY
      /\ Len(runs[r].rets) = Len(runs[r].calls) => Len(runs[r].delivered) = 1

====
